---- MODULE Spec2Model ----
(***************************************************************************)
(* A model of revogression: the Creature representation (creature.rs) and  *)
(* the population loop and refinement of Evolution::new (evolution.rs).    *)
(*                                                                         *)
(* Numbers.  f32 values are modelled as integers; the supports of the      *)
(* random distributions are small sets of integers.  Option<T> is a        *)
(* sequence of length at most one: None is <<>>, Some(v) is <<v>>.  A map  *)
(* HashMap<String, T> is a function whose domain is its set of keys.  A    *)
(* Rust panic is the record Panic.                                         *)
(***************************************************************************)
EXTENDS Integers, Sequences, FiniteSets, TLC

(***************************************************************************)
(* Bounds of the model.                                                    *)
(***************************************************************************)
\* Largest magnitude of c, b, z and layer_bias a mutation may produce.
MaxMag == 2
\* Largest exponent x a kept mutation has, short of the top of u8.
MaxX == 4
\* Largest generation at which a creature of a new lineage is still mutated.
MaxGeneration == 2
\* Largest num_creatures and num_cycles passed to Evolution::new.
MaxCreatures == 4
\* Largest num_creatures and num_cycles passed with data that has a parameter.
MaxParamCreatures == 1
MaxParamCycles == 1
MaxCycles == 2
\* Mutants per refinement round (500 in the code).
NumMutants == 1
\* The iterations passed to optimize_creature (30 in the code).
Iterations == 8

(***************************************************************************)
(* Program constants.                                                      *)
(***************************************************************************)
\* generation and x are u8: 0 .. 255.
U8Max == 255
\* Standard deviations of the Gaussian noise, on the integer grid.
SdFine == 1
SdFast == 2
SdBias == 2
\* The "arbitrarily large starting number" of the final selection, on the
\* integer grid of the model.
ArbitrarilyLarge == 1000000

None == <<>>
Some(v) == <<v>>
IsSome(o) == o # <<>>
Unwrap(o) == o[1]

Panic == [panic |-> TRUE]
IsPanic(r) == "panic" \in DOMAIN r

MutateSpeed == {"Fine", "Fast"}

\* The supports of the distributions sampled by the code.
NumLayersChoices == {1, 2, 3}
TriASamples == {1}
TriBSamples == {0}
NormalSamples(sd) == {-sd, sd}

RECURSIVE Pow(_, _)
Pow(base, e) == IF e = 0 THEN 1 ELSE base * Pow(base, e - 1)

Min2(a, b) == IF a < b THEN a ELSE b

(***************************************************************************)
(* Coefficients: Value = C * (B * param + Z) ^ X                           *)
(***************************************************************************)
CoefficientsCalculate(coeff, param_value) ==
    coeff.c * Pow(coeff.b * param_value + coeff.z, coeff.x)

\* Coefficients::new: every outcome of the six draws.
CoefficientsNew ==
    { [c |-> cs * c0, b |-> bs * b0, z |-> z0, x |-> x0] :
        c0 \in {1} \cup TriASamples, b0 \in {1} \cup TriASamples,
        z0 \in {0} \cup TriBSamples, cs \in {1, -1}, bs \in {1, -1},
        x0 \in {1, 2, 3} }

(***************************************************************************)
(* LayerModifiers                                                          *)
(***************************************************************************)
\* The parameter sets a new layer may use: a parameter is inserted when a
\* uniform draw from [0, 1) is below 2.5 / (N + 1), which is every draw when
\* 2.5 >= N + 1.
UsedParamSets(parameter_options) ==
    IF 5 >= 2 * (Cardinality(parameter_options) + 1)
    THEN {parameter_options}
    ELSE SUBSET parameter_options

\* A construction that gives every layer a previous-layer term.
LayerModifiersNewWithPrevious(first_layer, parameter_options) ==
    { [modifiers |-> m, previous_layer_coefficients |-> p, layer_bias |-> lb] :
        m \in UNION { [used -> CoefficientsNew] : used \in UsedParamSets(parameter_options) },
        p \in { Some(co) : co \in CoefficientsNew },
        lb \in {0} \cup NormalSamples(SdBias) }

LayerModifiersNew(first_layer, parameter_options) ==
    { [modifiers |-> m, previous_layer_coefficients |-> p, layer_bias |-> lb] :
        m \in UNION { [used -> CoefficientsNew] : used \in UsedParamSets(parameter_options) },
        p \in IF first_layer THEN {None} ELSE { Some(co) : co \in CoefficientsNew },
        lb \in {0} \cup NormalSamples(SdBias) }

(***************************************************************************)
(* Creature                                                                *)
(***************************************************************************)
RECURSIVE EquationsNew(_, _)
\* The equations of layer_limit layers built by the loop of Creature::new.
EquationsNew(layer_limit, parameter_options) ==
    IF layer_limit = 0 THEN {<<>>}
    ELSE { Append(eq, lm) :
             eq \in EquationsNew(layer_limit - 1, parameter_options),
             lm \in LayerModifiersNew(layer_limit = 1, parameter_options) }

CreatureNew(parameter_options, max_layers) ==
    { [equation |-> eq, cached_error_sum |-> None, generation |-> 1] :
        eq \in UNION { EquationsNew(Min2(nl, max_layers), parameter_options) :
                         nl \in NumLayersChoices } }

NumLayers(creature) == Len(creature.equation)

RECURSIVE ParamTotal(_, _, _)
\* The sum of coefficients.calculate(value) over the parameters in todo.
ParamTotal(modifiers, parameters, todo) ==
    IF todo = {} THEN 0
    ELSE LET param == CHOOSE p \in todo : TRUE
         IN  CoefficientsCalculate(modifiers[param], parameters[param])
               + ParamTotal(modifiers, parameters, todo \ {param})

RECURSIVE CalculateFrom(_, _, _, _, _)
\* The loop of Creature::calculate from layer k on, with the values the two
\* accumulators hold when the iteration for layer k begins.
CalculateFrom(equation, parameters, k, total, inner_total) ==
    IF k > Len(equation) THEN total
    ELSE LET lm == equation[k]
             own == ParamTotal(lm.modifiers, parameters,
                               DOMAIN parameters \cap DOMAIN lm.modifiers)
             prev == IF IsSome(lm.previous_layer_coefficients)
                     THEN CoefficientsCalculate(Unwrap(lm.previous_layer_coefficients), total)
                     ELSE 0
             inner == inner_total + own + prev
         IN  CalculateFrom(equation, parameters, k + 1, inner + lm.layer_bias, inner)

Calculate(creature, parameters) ==
    CalculateFrom(creature.equation, parameters, 1, 0, 0)

ModifyValue(mutate_speed) == IF mutate_speed = "Fine" THEN SdFine ELSE SdFast

\* u8 addition of one (overflow checks off): past 255 the value wraps to 0.
WrappingAddOne(n) == IF n < U8Max THEN n + 1 ELSE 0

\* The exponents the match in modified_coefficients can produce without a
\* panic.
ModifiedX(x) ==
    {WrappingAddOne(x)} \cup (IF x > 1 THEN {x - 1} ELSE {}) \cup {x}

\* The closure modified_coefficients of Creature::mutate.
ModifiedCoefficients(coeff, modify_value) ==
    { [c |-> coeff.c + n1, b |-> coeff.b + n2, z |-> coeff.z + n3, x |-> nx] :
        n1 \in NormalSamples(modify_value), n2 \in NormalSamples(modify_value),
        n3 \in NormalSamples(modify_value), nx \in ModifiedX(coeff.x) }

\* A mutation that loses the structure of the layer it copies.
MutatedLayersLosingStructure(layer_mods, modify_value) ==
    { [modifiers |-> <<>>, previous_layer_coefficients |-> None, layer_bias |-> lb] :
        lb \in {layer_mods.layer_bias}
                 \cup { layer_mods.layer_bias + n : n \in NormalSamples(modify_value) } }

\* One iteration of the loop of Creature::mutate: the layers layer_mods can
\* become.
MutatedLayers(layer_mods, modify_value) ==
    { [modifiers |-> m, previous_layer_coefficients |-> p, layer_bias |-> lb] :
        lb \in {layer_mods.layer_bias}
                 \cup { layer_mods.layer_bias + n : n \in NormalSamples(modify_value) },
        p \in IF IsSome(layer_mods.previous_layer_coefficients)
              THEN { Some(co) : co \in ModifiedCoefficients(
                                  Unwrap(layer_mods.previous_layer_coefficients), modify_value) }
              ELSE {None},
        m \in { f \in [DOMAIN layer_mods.modifiers ->
                         UNION { ModifiedCoefficients(layer_mods.modifiers[q], modify_value) :
                                   q \in DOMAIN layer_mods.modifiers }] :
                  \A q \in DOMAIN f :
                     f[q] \in ModifiedCoefficients(layer_mods.modifiers[q], modify_value) } }

RECURSIVE MutatedEquations(_, _, _)
\* new_equation after the first k layers of the parent have been handled.
MutatedEquations(equation, k, modify_value) ==
    IF k = 0 THEN {<<>>}
    ELSE { Append(eq, lm) :
             eq \in MutatedEquations(equation, k - 1, modify_value),
             lm \in MutatedLayers(equation[k], modify_value) }

\* The Coefficients terms of a creature, as a set.
AllCoefficients(creature) ==
    UNION { { lm.modifiers[q] : q \in DOMAIN lm.modifiers }
              \cup { Unwrap(o) : o \in {lm.previous_layer_coefficients} \ {None} } :
            lm \in { creature.equation[k] : k \in 1..Len(creature.equation) } }

\* With overflow checks on (the debug build) `x + 1` and `generation + 1`
\* panic past 255: the former when the draw takes that arm, the latter always.
MutateMayPanic(creature) ==
    \/ creature.generation = U8Max
    \/ \E co \in AllCoefficients(creature) : co.x = U8Max

\* A mutation that hands the parent's cached error to the mutant.
MutateKeepingCache(creature, mutate_speed) ==
    { [equation |-> eq, cached_error_sum |-> creature.cached_error_sum,
       generation |-> WrappingAddOne(creature.generation)] :
        eq \in MutatedEquations(creature.equation, Len(creature.equation),
                                ModifyValue(mutate_speed)) }

\* Creature::mutate: the creatures it can return.
Mutate(creature, mutate_speed) ==
    { [equation |-> eq, cached_error_sum |-> None,
       generation |-> WrappingAddOne(creature.generation)] :
        eq \in MutatedEquations(creature.equation, Len(creature.equation),
                                ModifyValue(mutate_speed)) }

\* Creature::mutate under either build: a returned creature, or Panic.
MutateOutcomes(creature, mutate_speed) ==
    Mutate(creature, mutate_speed)
      \cup (IF MutateMayPanic(creature) THEN {Panic} ELSE {})

(***************************************************************************)
(* The values a bounded run keeps: magnitudes within MaxMag, and mutated   *)
(* generations up to MaxGeneration or at the top of u8.                    *)
(***************************************************************************)
MagInBounds(v) == -MaxMag <= v /\ v <= MaxMag
CreatureInBounds(creature) ==
    /\ \A co \in AllCoefficients(creature) :
          /\ MagInBounds(co.c) /\ MagInBounds(co.b) /\ MagInBounds(co.z)
          /\ co.x <= MaxX \/ co.x >= U8Max - 2
    /\ \A k \in 1..Len(creature.equation) : MagInBounds(creature.equation[k].layer_bias)
MayMutate(creature) ==
    \/ 1 <= creature.generation /\ creature.generation <= MaxGeneration
    \/ creature.generation >= U8Max - 2

RECURSIVE SeqProduct(_)
\* The sequences whose k-th element is drawn from the k-th set of sets.
SeqProduct(sets) ==
    IF sets = <<>> THEN {<<>>}
    ELSE { <<h>> \o t : h \in Head(sets), t \in SeqProduct(Tail(sets)) }

\* A construction that comes one creature short.
CreateManyOneShort(n, parameter_options, ml) ==
    SeqProduct([k \in 1..(n - 1) |-> CreatureNew(parameter_options, ml)])

\* Creature::create_many_parallel: num_creatures independent constructions.
CreateManyParallel(n, parameter_options, ml) ==
    SeqProduct([k \in 1..n |-> CreatureNew(parameter_options, ml)])

(***************************************************************************)
(* Standardizer (crate::standardize, not among the source files): fitted   *)
(* per parameter, applied to every row and every parameter of a row.       *)
(***************************************************************************)
RECURSIVE SumValues(_, _, _)
SumValues(rows, key, k) ==
    IF k = 0 THEN 0
    ELSE (IF key \in DOMAIN rows[k] THEN rows[k][key] ELSE 0) + SumValues(rows, key, k - 1)

StandardizerNew(rows) ==
    LET keys == UNION { DOMAIN rows[k] : k \in 1..Len(rows) }
    IN  [key \in keys |->
           SumValues(rows, key, Len(rows))
             \div Cardinality({ k \in 1..Len(rows) : key \in DOMAIN rows[k] })]

StandardizedValue(standardizer, point) ==
    [key \in DOMAIN point |-> point[key] - standardizer[key]]

StandardizedValues(standardizer, rows) ==
    [k \in 1..Len(rows) |-> StandardizedValue(standardizer, rows[k])]

(***************************************************************************)
(* evolution.rs: the helpers of Evolution::new                             *)
(***************************************************************************)
\* point.get(target_param) with a default in place of the missing target.
PointGetOrZero(point, target_param) ==
    IF target_param \in DOMAIN point THEN Some(point[target_param]) ELSE Some(0)

\* point.get(target_param)
PointGet(point, target_param) ==
    IF target_param \in DOMAIN point THEN Some(point[target_param]) ELSE None

\* calc_error_sum panics, in .expect, at the first row without the target.
CalcErrorPanics(data_points, target_param) ==
    \E k \in 1..Len(data_points) : PointGet(data_points[k], target_param) = None

RECURSIVE SquaredErrorTotal(_, _, _, _)
\* total after the first k rows.
SquaredErrorTotal(creature, data_points, target_param, k) ==
    IF k = 0 THEN 0
    ELSE LET diff == Calculate(creature, data_points[k])
                       - Unwrap(PointGet(data_points[k], target_param))
         IN  SquaredErrorTotal(creature, data_points, target_param, k - 1) + diff * diff

CalcErrorSum(creature, data_points, target_param) ==
    SquaredErrorTotal(creature, data_points, target_param, Len(data_points))
      \div Len(data_points)

\* The body of the parallel for_each of the evaluation, for one creature.
Evaluated(creature, data_points, target_param) ==
    IF creature.cached_error_sum = None
    THEN [creature EXCEPT !.cached_error_sum =
                            Some(CalcErrorSum(creature, data_points, target_param))]
    ELSE creature

CachedErrors(cs) == [k \in 1..Len(cs) |-> Unwrap(cs[k].cached_error_sum)]

\* A ranking that takes the lower median of an even number of errors.
ErrorResultsLowerMedian(cs) ==
    LET errors == SortSeq(CachedErrors(cs), LAMBDA a, b : a < b)
    IN  <<errors[1], errors[(Len(errors) + 1) \div 2]>>

\* error_results: <<min_error, median_error>>; it indexes an empty vector,
\* and panics, when there is no creature.
ErrorResultsPanics(cs) == Len(cs) = 0
ErrorResults(cs) ==
    LET errors == SortSeq(CachedErrors(cs), LAMBDA a, b : a < b)
    IN  <<errors[1], errors[(Len(errors) \div 2) + 1]>>

\* A search that returns the index of the last match.
FindLastByError(cs, error) ==
    LET hits == { k \in 1..Len(cs) : cs[k].cached_error_sum = Some(error) }
    IN  IF hits = {} THEN 0 ELSE CHOOSE k \in hits : \A j \in hits : k >= j

\* iter().find(|creature| creature.cached_error_sum == Some(error)): the
\* index of the first match, 0 when there is none.
FindByError(cs, error) ==
    LET hits == { k \in 1..Len(cs) : cs[k].cached_error_sum = Some(error) }
    IN  IF hits = {} THEN 0 ELSE CHOOSE k \in hits : \A j \in hits : k <= j

\* A cull whose comparison is turned round: it keeps the creatures above
\* the median.
KillStrongCreatures(cs, median) ==
    SelectSeq(cs, LAMBDA creature : Unwrap(creature.cached_error_sum) > median)

\* A cull that keeps the creatures at the median too.
KillWeakCreaturesKeepingMedian(cs, median) ==
    SelectSeq(cs, LAMBDA creature : Unwrap(creature.cached_error_sum) <= median)

KillWeakCreatures(cs, median) ==
    SelectSeq(cs, LAMBDA creature : Unwrap(creature.cached_error_sum) < median)

\* A choice of the creatures to mutate that takes every survivor.
TopCreaturesAll(cs, min, median) == cs

\* The creatures mutated_top_creatures mutates: those below the cutoff
\* (min_error + median_error) / 2.
TopCreatures(cs, min, median) ==
    SelectSeq(cs, LAMBDA creature : 2 * Unwrap(creature.cached_error_sum) < min + median)

\* mutated_top_creatures: the vectors of mutants it can return.
MutatedTopCreatures(cs, min, median) ==
    LET top == TopCreatures(cs, min, median)
    IN  SeqProduct([k \in 1..Len(top) |->
                      { m \in Mutate(top[k], "Fast") : CreatureInBounds(m) }])

Truncate(cs, n) == IF Len(cs) > n THEN SubSeq(cs, 1, n) ELSE cs

RECURSIVE MinCachedError(_, _, _)
\* The loop of lines 67-77: the least cached error below the starting number.
MinCachedError(cs, k, min) ==
    IF k > Len(cs) THEN min
    ELSE MinCachedError(cs, k + 1,
           IF IsSome(cs[k].cached_error_sum) /\ Unwrap(cs[k].cached_error_sum) < min
           THEN Unwrap(cs[k].cached_error_sum) ELSE min)

\* A plateau test that every pair of errors passes.
RatioAlwaysAbove(min, earlier) == TRUE

\* min_error / earlier > 0.9999 in f32, for errors that are not negative:
\* 0.0 / 0.0 is NaN and compares false.
RatioAbovePlateau(min, earlier) == 10000 * min > 9999 * earlier

VARIABLES
    pc,                 \* the phase Evolution::new is in
    panic_message,      \* the message of the panic that ended the run, or ""
    target, data, num_creatures, num_cycles, max_layers,   \* the arguments
    standardizer, standardized_data, param_options,
    creatures, best_creatures, cycle, min_error, median_error,
    opt,                \* the locals of optimize_creature
    best_creature,      \* Some(the creature of the returned Evolution)
    cr,                 \* the creature the Creature calls are made on
    res                 \* the last Creature call and how it ended

evars == <<pc, panic_message, target, data, num_creatures, num_cycles, max_layers,
           standardizer, standardized_data, param_options, creatures,
           best_creatures, cycle, min_error, median_error, opt, best_creature>>
cvars == <<cr, res>>
vars == <<evars, cvars>>
args == <<target, data, num_creatures, num_cycles, max_layers>>

(***************************************************************************)
(* Spec: Evolution::new                                                    *)
(***************************************************************************)
\* The data sets passed: rows of the target "t" alone; the last two have a
\* row without the target.
DataSets ==
    { <<[k \in {"t"} |-> 1]>>,
      <<[k \in {"t"} |-> 0], [k \in {"t"} |-> 2]>>,
      <<[k \in {"t"} |-> 1], <<>>>>,
      <<<<>>, [k \in {"t"} |-> 1]>> }
MaxLayersArgs == {0, 1}

NoOpt == [errors |-> <<>>, best_error |-> 0, speed |-> "Fast", best_creature |-> <<>>,
          i |-> 0, iterations |-> 0]

CIdle == cr = <<>> /\ res = [op |-> "none", panicked |-> FALSE]

\* The entry of Evolution::new with arguments drawn from the given ranges.
InitWith(data_sets, most_creatures, most_cycles) ==
    /\ pc = "Initializing"
    /\ panic_message = ""
    /\ target = "t"
    /\ data \in data_sets
    /\ num_creatures \in 0..most_creatures
    /\ num_cycles \in 0..most_cycles
    /\ max_layers \in MaxLayersArgs
    /\ standardizer = <<>>
    /\ standardized_data = <<>>
    /\ param_options = {}
    /\ creatures = <<>>
    /\ best_creatures = <<>>
    /\ cycle = 0
    /\ min_error = None
    /\ median_error = None
    /\ opt = NoOpt
    /\ best_creature = None
    /\ CIdle

Init == InitWith(DataSets, MaxCreatures, MaxCycles)

\* The candidate parameters with the target left in.
ParamOptionsWithTarget(point, target_param) == DOMAIN point

\* Lines 29-32: the keys of the first row other than the target.
ParamOptions(point, target_param) == DOMAIN point \ {target_param}

PanicWith(message) ==
    /\ pc' = "Panicked"
    /\ panic_message' = message

\* The head of `for cycle in 1..=num_cycles`, after cycle `done` has ended.
NextCycle(done) ==
    IF done < num_cycles
    THEN cycle' = done + 1 /\ pc' = "Evaluating"
    ELSE cycle' = done /\ pc' = "ChoosingBest"

\* Lines 25-35: fit the standardizer, list the parameters, build the population.
Initialize ==
    /\ pc = "Initializing"
    /\ standardizer' = StandardizerNew(data)
    /\ standardized_data' = StandardizedValues(standardizer', data)
    /\ param_options' = ParamOptions(data[1], target)
    /\ creatures' \in CreateManyParallel(num_creatures, param_options', max_layers)
    /\ NextCycle(0)
    /\ UNCHANGED <<panic_message, args, best_creatures, min_error, median_error, opt,
                   best_creature, cvars>>

\* Lines 38-43: one worker evaluates one creature whose cache is unset.
EvaluateCreature(k) ==
    /\ pc = "Evaluating"
    /\ creatures[k].cached_error_sum = None
    /\ IF CalcErrorPanics(standardized_data, target)
       THEN /\ PanicWith("Data point missing target_param")
            /\ UNCHANGED creatures
       ELSE /\ creatures' = [creatures EXCEPT ![k] =
                               Evaluated(creatures[k], standardized_data, target)]
            /\ UNCHANGED <<pc, panic_message>>
    /\ UNCHANGED <<args, standardizer, standardized_data, param_options, best_creatures,
                   cycle, min_error, median_error, opt, best_creature, cvars>>

\* A for_each that returns while creatures are still to be handled.
EvaluationDoneEarly ==
    /\ pc = "Evaluating"
    /\ pc' = "Selecting"
    /\ UNCHANGED <<panic_message, args, standardizer, standardized_data, param_options,
                   creatures, best_creatures, cycle, min_error, median_error, opt,
                   best_creature, cvars>>

\* The parallel for_each returns when every creature has been handled.
EvaluationDone ==
    /\ pc = "Evaluating"
    /\ \A k \in 1..Len(creatures) : creatures[k].cached_error_sum # None
    /\ pc' = "Selecting"
    /\ UNCHANGED <<panic_message, args, standardizer, standardized_data, param_options,
                   creatures, best_creatures, cycle, min_error, median_error, opt,
                   best_creature, cvars>>

\* Lines 45-52: rank the population and record the champion of the cycle.
Select ==
    /\ pc = "Selecting"
    /\ IF ErrorResultsPanics(creatures)
       THEN /\ PanicWith("index out of bounds")
            /\ UNCHANGED <<min_error, median_error, best_creatures>>
       ELSE LET r == ErrorResults(creatures)
                found == FindByError(creatures, r[1])
            IN  /\ min_error' = Some(r[1])
                /\ median_error' = Some(r[2])
                /\ IF found = 0
                   THEN /\ PanicWith("Error matching min_error to a creature!")
                        /\ UNCHANGED best_creatures
                   ELSE /\ best_creatures' = Append(best_creatures, creatures[found])
                        /\ pc' = "Reproducing"
                        /\ UNCHANGED panic_message
    /\ UNCHANGED <<args, standardizer, standardized_data, param_options, creatures,
                   cycle, opt, best_creature, cvars>>

\* Lines 54-55: cull, then append the mutants of the top survivors.
Reproduce ==
    /\ pc = "Reproducing"
    /\ LET survivors == KillWeakCreatures(creatures, Unwrap(median_error))
           top == TopCreatures(survivors, Unwrap(min_error), Unwrap(median_error))
       IN  \/ /\ \E k \in 1..Len(top) : MutateMayPanic(top[k])
              /\ PanicWith("attempt to add with overflow")
              /\ UNCHANGED creatures
           \/ /\ \E mutants \in MutatedTopCreatures(survivors, Unwrap(min_error),
                                                    Unwrap(median_error)) :
                    creatures' = survivors \o mutants
              /\ pc' = "Resizing"
              /\ UNCHANGED panic_message
    /\ UNCHANGED <<args, standardizer, standardized_data, param_options, best_creatures,
                   cycle, min_error, median_error, opt, best_creature, cvars>>

\* Lines 59-64: cut off extras or fill up with new creatures; next cycle.
Resize ==
    /\ pc = "Resizing"
    /\ LET kept == Truncate(creatures, num_creatures)
       IN  IF Len(kept) < num_creatures
           THEN \E fresh \in CreateManyParallel(num_creatures - Len(kept),
                                                param_options, max_layers) :
                   creatures' = kept \o fresh
           ELSE creatures' = kept
    /\ NextCycle(cycle)
    /\ UNCHANGED <<panic_message, args, standardizer, standardized_data, param_options,
                   best_creatures, min_error, median_error, opt, best_creature, cvars>>

\* Lines 67-83 and 111-114: pick the overall champion and enter
\* optimize_creature(best_creature, standardized_data, target, iterations).
\* The population and median_error are not read after the loop: the model
\* lets go of them here.
ChooseBest ==
    /\ pc = "ChoosingBest"
    /\ LET least == MinCachedError(best_creatures, 1, ArbitrarilyLarge)
           found == FindByError(best_creatures, least)
       IN  /\ min_error' = Some(least)
           /\ IF found = 0
              THEN /\ PanicWith("Error matching min_error to a creature!")
                   /\ UNCHANGED opt
              ELSE /\ opt' = [errors |-> <<>>,
                              best_error |-> Unwrap(best_creatures[found].cached_error_sum),
                              speed |-> "Fast",
                              best_creature |-> best_creatures[found],
                              i |-> 0,
                              iterations |-> Iterations]
                   /\ pc' = "Refining"
                   /\ UNCHANGED panic_message
    /\ creatures' = <<>>
    /\ median_error' = None
    /\ UNCHANGED <<args, standardizer, standardized_data, param_options,
                   best_creatures, cycle, best_creature, cvars>>

\* A round whose candidates leave out the clone of the running best.
OptimizeRoundWithoutBest(o, mutants, data_points, target_param) ==
    LET cs == [k \in 1..Len(mutants) |-> Evaluated(mutants[k], data_points, target_param)]
        min == ErrorResults(cs)[1]
        errors == Append(o.errors, min)
        better == min < o.best_error
    IN  [errors |-> errors,
         best_error |-> IF better THEN min ELSE o.best_error,
         speed |-> o.speed,
         best_creature |-> IF better THEN cs[FindByError(cs, min)] ELSE o.best_creature,
         i |-> o.i + 1,
         iterations |-> o.iterations]

\* The locals of optimize_creature after one more iteration of its loop
\* (lines 116-139) in which `mutants` were drawn.
OptimizeRound(o, mutants, data_points, target_param) ==
    LET cs == [k \in 1..(Len(mutants) + 1) |->
                 Evaluated(IF k = 1 THEN o.best_creature ELSE mutants[k - 1],
                           data_points, target_param)]
        min == ErrorResults(cs)[1]
        errors == Append(o.errors, min)
        better == min < o.best_error
    IN  [errors |-> errors,
         best_error |-> IF better THEN min ELSE o.best_error,
         speed |-> IF o.i > 5 /\ RatioAbovePlateau(min, errors[Len(errors) - 3])
                   THEN "Fine" ELSE o.speed,
         best_creature |-> IF better THEN cs[FindByError(cs, min)] ELSE o.best_creature,
         i |-> o.i + 1,
         iterations |-> o.iterations]

\* One iteration of `for i in 0..=iterations`.
RefineRound ==
    /\ pc = "Refining"
    /\ opt.i <= opt.iterations
    /\ \/ /\ MutateMayPanic(opt.best_creature)
          /\ PanicWith("attempt to add with overflow")
          /\ UNCHANGED opt
       \/ /\ CalcErrorPanics(standardized_data, target)
          /\ PanicWith("Data point missing target_param")
          /\ UNCHANGED opt
       \/ /\ ~CalcErrorPanics(standardized_data, target)
          /\ \E mutants \in SeqProduct([k \in 1..NumMutants |->
                              { m \in Mutate(opt.best_creature, opt.speed) :
                                  CreatureInBounds(m) }]) :
                opt' = OptimizeRound(opt, mutants, standardized_data, target)
          /\ UNCHANGED <<pc, panic_message>>
    /\ UNCHANGED <<args, standardizer, standardized_data, param_options, creatures,
                   best_creatures, cycle, min_error, median_error, best_creature, cvars>>

\* Lines 141 and 85-96: optimize_creature returns and the Evolution is built.
Finish ==
    /\ pc = "Refining"
    /\ opt.i > opt.iterations
    /\ best_creature' = Some(opt.best_creature)
    /\ pc' = "Done"
    /\ UNCHANGED <<panic_message, args, standardizer, standardized_data, param_options,
                   creatures, best_creatures, cycle, min_error, median_error, opt, cvars>>

Next ==
    \/ Initialize
    \/ \E k \in 1..Len(creatures) : EvaluateCreature(k)
    \/ EvaluationDone
    \/ Select
    \/ Reproduce
    \/ Resize
    \/ ChooseBest
    \/ RefineRound
    \/ Finish

Spec == Init /\ [][Next]_vars

(***************************************************************************)
(* SpecParams: Evolution::new on data with a parameter beside the target.  *)
(***************************************************************************)
\* Rows of the parameter "p" and the target "t".
ParamDataSets ==
    { <<[k \in {"p", "t"} |-> 0], [k \in {"p", "t"} |-> 2]>> }

PInit == InitWith(ParamDataSets, MaxParamCreatures, MaxParamCycles)

SpecParams == PInit /\ [][Next]_vars

(***************************************************************************)
(* SpecCreature: a lineage, from Creature::new through Creature::mutate.   *)
(***************************************************************************)
EIdle ==
    /\ pc = "Idle" /\ panic_message = "" /\ target = "t" /\ data = <<>>
    /\ num_creatures = 0 /\ num_cycles = 0 /\ max_layers = 0
    /\ standardizer = <<>> /\ standardized_data = <<>> /\ param_options = {}
    /\ creatures = <<>> /\ best_creatures = <<>> /\ cycle = 0
    /\ min_error = None /\ median_error = None /\ opt = NoOpt /\ best_creature = None

\* The (parameter_options, max_layers) arguments of the modelled calls.
NewInputs == ({{}} \X (0..3)) \cup ({{"p"}} \X (0..1))

\* The state after Creature::new(parameter_options, max_layers) returned.
CInit ==
    /\ \E inp \in NewInputs :
         /\ cr \in CreatureNew(inp[1], inp[2])
         /\ res = [op |-> "new", panicked |-> FALSE, max_layers |-> inp[2]]
    /\ EIdle

CallMutate ==
    /\ ~res.panicked
    /\ MayMutate(cr)
    /\ Len(cr.equation) <= 2      \* three-layer creatures are only constructed
    /\ \E speed \in MutateSpeed :
         \E out \in MutateOutcomes(cr, speed) :
            IF IsPanic(out)
            THEN /\ cr' = cr
                 /\ res' = [op |-> "mutate", panicked |-> TRUE, speed |-> speed]
            ELSE /\ CreatureInBounds(out)
                 /\ cr' = out
                 /\ res' = [op |-> "mutate", panicked |-> FALSE, speed |-> speed]
    /\ UNCHANGED evars

SpecCreature == CInit /\ [][CallMutate]_vars

(***************************************************************************)
(* SpecAged: the mutations at the top of u8, late in a lineage.            *)
(***************************************************************************)
\* Creatures late in a lineage: 254 mutations after Creature::new with the
\* bias back at 0, and 252 mutations after Creature::new(["p"], 1) drew
\* x = 3, 251 of which incremented x.
AgedCreatures ==
    { [equation |-> <<[modifiers |-> <<>>, previous_layer_coefficients |-> None,
                       layer_bias |-> 0]>>,
       cached_error_sum |-> None, generation |-> U8Max],
      [equation |-> <<[modifiers |-> [q \in {"p"} |-> [c |-> 1, b |-> 1, z |-> 0, x |-> U8Max - 1]],
                       previous_layer_coefficients |-> None, layer_bias |-> 0]>>,
       cached_error_sum |-> None, generation |-> U8Max - 2] }

AInit ==
    /\ cr \in AgedCreatures
    /\ res = [op |-> "lineage", panicked |-> FALSE]
    /\ EIdle

SpecAged == AInit /\ [][CallMutate]_vars

(***************************************************************************)
(* SpecCalculate: Creature::calculate applied to new creatures.            *)
(***************************************************************************)
\* The (parameter_options, max_layers) the evaluated creatures are built from.
CalcInputs == ({{}} \X (0..3)) \cup ({{"p"}} \X (0..2))
\* The input mappings: "q" is a parameter no layer references.
CalcPoints ==
    { <<>>, [k \in {"p"} |-> 1], [k \in {"p"} |-> 2],
      [k \in {"p", "q"} |-> IF k = "p" THEN -1 ELSE 3] }

KInit ==
    /\ \E inp \in CalcInputs : cr \in CreatureNew(inp[1], inp[2])
    /\ res = [op |-> "new", panicked |-> FALSE]
    /\ EIdle

CallCalculate ==
    /\ res.op = "new"
    /\ \E parameters \in CalcPoints :
         res' = [op |-> "calculate", panicked |-> FALSE, parameters |-> parameters,
                 value |-> Calculate(cr, parameters)]
    /\ cr' = cr
    /\ UNCHANGED evars

SpecCalculate == KInit /\ [][CallCalculate]_vars

(***************************************************************************)
(* SpecLate: Evolution::new from the end of its last cycle, in runs of one *)
(* creature and max_layers = 3, in which every champion is the new         *)
(* creature of its cycle.                                                  *)
(***************************************************************************)
LateData == <<[k \in {"t"} |-> 0], [k \in {"t"} |-> 2]>>

\* New creatures without parameters: of one layer, with bias 0 or 2, and of
\* three layers with cubic previous-layer terms, whose output is far from
\* every target.
BiasOnly(bias) ==
    [equation |-> <<[modifiers |-> <<>>, previous_layer_coefficients |-> None,
                     layer_bias |-> bias]>>,
     cached_error_sum |-> None, generation |-> 1]
CubicTower ==
    [equation |-> <<[modifiers |-> <<>>, previous_layer_coefficients |-> None,
                     layer_bias |-> 2],
                    [modifiers |-> <<>>,
                     previous_layer_coefficients |-> Some([c |-> 1, b |-> 1, z |-> 0, x |-> 3]),
                     layer_bias |-> 2],
                    [modifiers |-> <<>>,
                     previous_layer_coefficients |-> Some([c |-> 1, b |-> 1, z |-> 0, x |-> 3]),
                     layer_bias |-> 2]>>,
     cached_error_sum |-> None, generation |-> 1]
LateCreatures == { BiasOnly(0), BiasOnly(2), BiasOnly(-2), CubicTower }

LInit ==
    /\ pc = "ChoosingBest"
    /\ panic_message = ""
    /\ target = "t"
    /\ data = LateData
    /\ num_creatures = 1
    /\ num_cycles \in 1..MaxCycles
    /\ max_layers = 3
    /\ standardizer = StandardizerNew(data)
    /\ standardized_data = StandardizedValues(standardizer, data)
    /\ param_options = {}
    /\ best_creatures \in
          [1..num_cycles -> { Evaluated(creature, standardized_data, target) :
                                creature \in LateCreatures }]
    /\ creatures \in [1..1 -> LateCreatures]
    /\ cycle = num_cycles
    /\ min_error = best_creatures[num_cycles].cached_error_sum
    /\ median_error = min_error
    /\ opt = NoOpt
    /\ best_creature = None
    /\ CIdle

LNext == ChooseBest \/ RefineRound \/ Finish

SpecLate == LInit /\ [][LNext]_vars

(***************************************************************************)
(* SpecReproduce: the Reproducing phase of the first cycle and the resize   *)
(* after it, on populations of up to four one-layer creatures scored       *)
(* against the row t = 1.                                                  *)
(***************************************************************************)
RankedData == <<[k \in {"t"} |-> 1]>>
RankedSizes == 1..4
RankedBiases == {-1, 0, 3, 4}

\* The state Select leaves in cycle 1 with the given scored population.
RInitWith(population) ==
    /\ pc = "Reproducing"
    /\ panic_message = ""
    /\ target = "t"
    /\ data = RankedData
    /\ num_creatures = Len(population)
    /\ num_cycles = 1
    /\ max_layers = 1
    /\ standardizer = StandardizerNew(data)
    /\ standardized_data = StandardizedValues(standardizer, data)
    /\ param_options = {}
    /\ creatures = population
    /\ cycle = 1
    /\ min_error = Some(ErrorResults(population)[1])
    /\ median_error = Some(ErrorResults(population)[2])
    /\ best_creatures = <<population[FindByError(population, Unwrap(min_error))]>>
    /\ opt = NoOpt
    /\ best_creature = None
    /\ CIdle

RInit ==
    \E n \in RankedSizes :
       \E biases \in [1..n -> RankedBiases] :
          RInitWith([k \in 1..n |->
                       Evaluated(BiasOnly(biases[k]),
                                 StandardizedValues(StandardizerNew(RankedData), RankedData),
                                 "t")])

RNext == Reproduce \/ Resize

SpecReproduce == RInit /\ [][RNext]_vars

(***************************************************************************)
(* SpecEvaluate: the parallel evaluation (of the population in a cycle, of *)
(* the candidates in a refinement round) of a collection whose first       *)
(* creatures are scored already and whose other creatures are not.         *)
(***************************************************************************)
EvaluateSizes == 1..3
EvaluateBiases == -2..2

VInit ==
    /\ pc = "Evaluating"
    /\ panic_message = ""
    /\ target = "t"
    /\ data = LateData
    /\ num_creatures \in EvaluateSizes
    /\ num_cycles = 2
    /\ max_layers = 1
    /\ standardizer = StandardizerNew(data)
    /\ standardized_data = StandardizedValues(standardizer, data)
    /\ param_options = {}
    /\ \E biases \in [1..num_creatures -> EvaluateBiases] :
          \E scored \in 0..(num_creatures - 1) :
             creatures = [k \in 1..num_creatures |->
                            IF k <= scored
                            THEN Evaluated(BiasOnly(biases[k]), standardized_data, target)
                            ELSE BiasOnly(biases[k])]
    /\ best_creatures = <<>>
    /\ cycle = 1
    /\ min_error = None
    /\ median_error = None
    /\ opt = NoOpt
    /\ best_creature = None
    /\ CIdle

VNext ==
    \/ \E k \in 1..Len(creatures) : EvaluateCreature(k)
    \/ EvaluationDone

SpecEvaluate == VInit /\ [][VNext]_vars

(***************************************************************************)
(* Claims about the population of Evolution::new.                          *)
(***************************************************************************)
\* C1: for num_creatures >= 1 the population holds exactly num_creatures
\* creatures at the end of every cycle, after the truncate-then-refill
\* step, and so at the start of every Evaluating phase.
C1_PopulationSize ==
    (num_creatures >= 1 /\ pc \in {"Evaluating", "Selecting", "ChoosingBest"})
        => Len(creatures) = num_creatures

\* C1 witness: the second cycle starts with a full population of three in
\* which a survivor, its mutant and a new creature sit side by side.
C1_Witness ==
    /\ pc = "Evaluating" /\ cycle = 2 /\ num_creatures = 3
    /\ Len(creatures) = 3
    /\ IsSome(creatures[1].cached_error_sum)
    /\ creatures[2].generation = 2
    /\ creatures[3].generation = 1 /\ creatures[3].cached_error_sum = None

\* Every creature the run holds.
HeldCreatures ==
    { creatures[k] : k \in 1..Len(creatures) }
      \cup { best_creatures[k] : k \in 1..Len(best_creatures) }
      \cup (IF pc \in {"Refining", "Done"} THEN {opt.best_creature} ELSE {})
      \cup { Unwrap(o) : o \in {best_creature} \ {None} }

\* Every set cache is the mean squared error of its creature's equation
\* over the standardized rows.
CachesAreMeanSquaredErrors ==
    \A creature \in HeldCreatures :
        IsSome(creature.cached_error_sum)
          => creature.cached_error_sum
               = Some(CalcErrorSum(creature, standardized_data, target))

\* C2: a set cache equals the mean squared error of the creature's current
\* equation over the standardized rows; Evaluating leaves a set cache as it
\* is; the creatures mutate returned and the newly constructed ones enter
\* the next Evaluating phase with an unset cache.
C2_CacheIsErrorOfEquation ==
    [][ /\ CachesAreMeanSquaredErrors'
        /\ (pc = "Evaluating" /\ pc' = "Evaluating") =>
              \A k \in 1..Len(creatures) :
                 IsSome(creatures[k].cached_error_sum) => creatures'[k] = creatures[k]
        /\ (pc \in {"Reproducing", "Resizing"} /\ pc' \in {"Resizing", "Evaluating"}) =>
              \A k \in 1..Len(creatures') :
                 (\A j \in 1..Len(creatures) : creatures'[k] # creatures[j])
                    => creatures'[k].cached_error_sum = None ]_vars

\* C2 witness: in the second cycle a survivor with its cache set waits
\* beside its mutant, which was scored anew and differs in error.
C2_Witness ==
    /\ pc = "Selecting" /\ cycle = 2
    /\ Len(creatures) >= 2
    /\ creatures[1].generation = 1 /\ creatures[2].generation = 2
    /\ IsSome(creatures[1].cached_error_sum) /\ IsSome(creatures[2].cached_error_sum)
    /\ creatures[1].cached_error_sum # creatures[2].cached_error_sum

(***************************************************************************)
(* Claims about Creature.                                                  *)
(***************************************************************************)
\* C3: every Coefficients term of every creature reachable by Creature::new
\* and Creature::mutate has its exponent x in {1, 2, 3}.
C3_ExponentInOneToThree ==
    \A co \in AllCoefficients(cr) : co.x \in {1, 2, 3}

\* C4: a new creature has generation 1, and mutate returns, without
\* aborting and without wrapping, a creature whose generation is the
\* parent's plus one, whatever the parent's generation.
C4_GenerationIncrements ==
    [][ /\ res'.op = "new" => cr'.generation = 1
        /\ res'.op = "mutate" =>
              ~res'.panicked /\ cr'.generation = cr.generation + 1 ]_vars

\* Two creatures with the same number of layers, the same parameter names in
\* each layer and a previous-layer term in the same layers.
SameStructure(a, b) ==
    /\ Len(a.equation) = Len(b.equation)
    /\ \A k \in 1..Len(a.equation) :
          /\ DOMAIN a.equation[k].modifiers = DOMAIN b.equation[k].modifiers
          /\ IsSome(a.equation[k].previous_layer_coefficients)
                = IsSome(b.equation[k].previous_layer_coefficients)

\* C5: the creature mutate returns has its parent's number of layers, each
\* layer references the parameter names of the parent's layer at that
\* position and has a previous-layer term exactly if the parent's has one.
C5_MutatePreservesStructure ==
    [][ (res'.op = "mutate" /\ ~res'.panicked) => SameStructure(cr, cr') ]_vars

\* C5 witness: a mutant of a mutant that has two layers, the second with a
\* previous-layer term.
C5_Witness ==
    /\ res.op = "mutate" /\ ~res.panicked
    /\ cr.generation = 3
    /\ Len(cr.equation) = 2
    /\ IsSome(cr.equation[2].previous_layer_coefficients)

\* C6: a creature returned by Creature::new(parameter_options, max_layers)
\* has at least one and at most max_layers layers.
C6_LayerCountInRange ==
    res.op = "new" => (1 <= NumLayers(cr) /\ NumLayers(cr) <= res.max_layers)

RECURSIVE LayeredTotal(_, _, _)
\* total_k of the layered sum: layer k's own parameter contributions, its
\* previous-layer term applied to total_(k-1), and its bias.
LayeredTotal(equation, parameters, k) ==
    IF k = 0 THEN 0
    ELSE LET lm == equation[k]
         IN  ParamTotal(lm.modifiers, parameters,
                        DOMAIN parameters \cap DOMAIN lm.modifiers)
               + (IF IsSome(lm.previous_layer_coefficients)
                  THEN CoefficientsCalculate(Unwrap(lm.previous_layer_coefficients),
                                             LayeredTotal(equation, parameters, k - 1))
                  ELSE 0)
               + lm.layer_bias

\* C7: calculate returns total_n of the layered sum, in which a layer's total
\* holds only that layer's own parameter contributions.
C7_CalculateIsLayeredSum ==
    res.op = "calculate" =>
        res.value = LayeredTotal(cr.equation, res.parameters, Len(cr.equation))

(***************************************************************************)
(* Claims about the refinement and the errors of Evolution::new.           *)
(***************************************************************************)
NonIncreasing(errors) ==
    \A j \in 1..(Len(errors) - 1) : errors[j + 1] <= errors[j]

\* C8: in optimize_creature the running best error never increases from a
\* round to the next, the history of per-round minimum errors is
\* non-increasing, and the returned creature carries the final running best
\* error as its cache, at most the cached error of the starting champion.
C8_RefinementIsMonotone ==
    [][ /\ (pc = "Refining" /\ pc' = "Refining") => opt'.best_error <= opt.best_error
        /\ pc' \in {"Refining", "Done"} =>
              /\ NonIncreasing(opt'.errors)
              /\ opt'.best_creature.cached_error_sum = Some(opt'.best_error)
              /\ opt'.best_error <= Unwrap(min_error')
        /\ pc' = "Done" =>
              /\ best_creature' = Some(opt'.best_creature)
              /\ Unwrap(best_creature').cached_error_sum = Some(opt'.best_error) ]_vars

\* C8 witness: a finished refinement that improved on its champion twice.
C8_Witness ==
    /\ pc = "Done"
    /\ Len(opt.errors) = Iterations + 1
    /\ opt.best_error < Unwrap(min_error)
    /\ \E j, k \in 1..Len(opt.errors) :
          /\ j < k
          /\ opt.errors[k] < opt.errors[j]
          /\ opt.errors[j] < Unwrap(min_error)

\* C9: with a population size of zero or a cycle count of zero
\* Evolution::new rejects the configuration before any work: no population
\* is built, no creature is scored, no cycle and no refinement step runs.
C9_ZeroConfigurationRejectedFirst ==
    (num_creatures = 0 \/ num_cycles = 0) =>
        /\ pc # "Done"
        /\ creatures = <<>>
        /\ best_creatures = <<>>
        /\ cycle = 0
        /\ opt = NoOpt

DataMissingTarget == \E k \in 1..Len(data) : target \notin DOMAIN data[k]

\* C10: when a row of the data lacks the target parameter the run aborts
\* and returns no model: no default stands in for the missing target, and
\* no creature's cache is ever set from a computation over those rows.
C10_MissingTargetAborts ==
    DataMissingTarget =>
        /\ pc # "Done"
        /\ best_creature = None
        /\ \A creature \in HeldCreatures : creature.cached_error_sum = None

\* C10 witness: the run has aborted in the scoring of a population of
\* three, on a row without the target.
C10_Witness ==
    /\ DataMissingTarget
    /\ pc = "Panicked"
    /\ panic_message = "Data point missing target_param"
    /\ Len(creatures) = 3

(***************************************************************************)
(* Claims about the course of Evolution::new.                              *)
(***************************************************************************)
ValidRun == num_cycles >= 1 /\ num_creatures >= 1 /\ ~DataMissingTarget

\* The steps from phase to phase of a run that goes through its phases in
\* order; Reproducing is the phases Reproducing and Resizing of the model,
\* Refining its phases ChoosingBest and Refining.
PhaseSteps ==
    { <<"Initializing", "Evaluating">>, <<"Evaluating", "Evaluating">>,
      <<"Evaluating", "Selecting">>, <<"Selecting", "Reproducing">>,
      <<"Reproducing", "Resizing">>, <<"Resizing", "Evaluating">>,
      <<"Resizing", "ChoosingBest">>, <<"ChoosingBest", "Refining">>,
      <<"Refining", "Refining">>, <<"Refining", "Done">> }

\* C11: with num_cycles >= 1, num_creatures >= 1 and the target in every
\* row, Evolution::new goes from Initializing through exactly num_cycles
\* repetitions of Evaluating, Selecting, Reproducing to Refining and then
\* Done, and the finished model holds the creature the refinement returned.
C11_PhasesInOrder ==
    [][ ValidRun =>
          /\ <<pc, pc'>> \in PhaseSteps
          /\ (pc # "Evaluating" /\ pc' = "Evaluating") =>
                 cycle' = cycle + 1 /\ cycle' <= num_cycles
          /\ pc' = "ChoosingBest" => cycle' = num_cycles
          /\ pc' = "Done" => best_creature' = Some(opt.best_creature) ]_vars

\* C16: after the last cycle the creature handed to the refinement is a
\* recorded champion whose cached error is the least over best_creatures,
\* and the lookup succeeds whatever the champions' errors are.
C16_FinalChampionFound ==
    [][ (pc = "ChoosingBest" /\ num_cycles >= 1) =>
          /\ pc' = "Refining"
          /\ \E k \in 1..Len(best_creatures) :
                /\ opt'.best_creature = best_creatures[k]
                /\ \A j \in 1..Len(best_creatures) :
                      Unwrap(best_creatures[k].cached_error_sum)
                        <= Unwrap(best_creatures[j].cached_error_sum) ]_vars

(***************************************************************************)
(* Claims about the parameters creatures refer to.                         *)
(***************************************************************************)
\* C12: the candidate parameters of the population and of every refill
\* leave out the target, no layer of a creature of the population, of
\* best_creatures or of the refinement refers to the target, and so the
\* output calculated for a row does not depend on the row's target value.
C12_TargetNeverReferenced ==
    /\ target \notin param_options
    /\ \A creature \in HeldCreatures :
          /\ \A k \in 1..Len(creature.equation) :
                target \notin DOMAIN creature.equation[k].modifiers
          /\ \A j \in 1..Len(standardized_data) :
                target \in DOMAIN standardized_data[j] =>
                   Calculate(creature, standardized_data[j])
                     = Calculate(creature,
                                 [standardized_data[j] EXCEPT ![target] = @ + 1])

\* C12 witness: the finished model holds a mutant whose layer refers to the
\* parameter "p", built from data that has "p" and the target.
C12_Witness ==
    /\ pc = "Done"
    /\ param_options = {"p"}
    /\ Unwrap(best_creature).generation >= 2
    /\ DOMAIN Unwrap(best_creature).equation[1].modifiers = {"p"}

(***************************************************************************)
(* Claims about Reproducing and Selecting.                                 *)
(***************************************************************************)
\* C13: Reproducing removes every creature whose cached error is at least
\* median_error, keeps every other creature as it is, adds exactly one Fast
\* mutant for each kept creature whose error is below
\* (min_error + median_error) / 2, and adds no other creature.
C13_CullAndMutate ==
    [][ (pc = "Reproducing" /\ pc' = "Resizing") =>
          LET min == Unwrap(min_error)
              median == Unwrap(median_error)
              kept == SelectSeq(creatures,
                        LAMBDA c : ~(Unwrap(c.cached_error_sum) >= median))
              parents == SelectSeq(kept,
                           LAMBDA c : 2 * Unwrap(c.cached_error_sum) < min + median)
          IN  /\ Len(creatures') = Len(kept) + Len(parents)
              /\ SubSeq(creatures', 1, Len(kept)) = kept
              /\ \A k \in 1..Len(parents) :
                    creatures'[Len(kept) + k] \in Mutate(parents[k], "Fast") ]_vars

\* C13 witness: of four creatures two were removed, one was kept and
\* mutated, and one was kept without a mutant.
C13_Witness ==
    /\ pc = "Resizing" /\ num_creatures = 4
    /\ Len(creatures) = 3
    /\ creatures[1].generation = 1 /\ creatures[2].generation = 1
    /\ creatures[3].generation = 2
    /\ Unwrap(creatures[1].cached_error_sum) # Unwrap(creatures[2].cached_error_sum)

\* C14: Selecting appends to best_creatures a clone of the first creature,
\* in the population's order, whose cached error is the smallest cached
\* error of the population; one champion is appended per cycle, so that
\* after k cycles best_creatures has k entries, each with its cache set.
C14_ChampionIsFirstMinimum ==
    [][ /\ (pc = "Selecting" /\ pc' = "Reproducing") =>
              \E k \in 1..Len(creatures) :
                 /\ best_creatures' = Append(best_creatures, creatures[k])
                 /\ \A j \in 1..Len(creatures) :
                       /\ Unwrap(creatures[k].cached_error_sum)
                            <= Unwrap(creatures[j].cached_error_sum)
                       /\ j < k => creatures[j].cached_error_sum
                                      # creatures[k].cached_error_sum
        /\ ~(pc = "Selecting" /\ pc' = "Reproducing") => best_creatures' = best_creatures
        /\ pc' \in {"Reproducing", "Resizing"} => Len(best_creatures') = cycle'
        /\ pc' \in {"Evaluating", "Selecting"} => Len(best_creatures') = cycle' - 1
        /\ \A k \in 1..Len(best_creatures') : IsSome(best_creatures'[k].cached_error_sum)
      ]_vars

\* C14 witness: in the second cycle two different creatures share the
\* smallest error and the first of them is the champion of the cycle.
C14_Witness ==
    /\ pc = "Reproducing" /\ cycle = 2
    /\ Len(best_creatures) = 2
    /\ Len(creatures) >= 2
    /\ creatures[1] # creatures[2]
    /\ creatures[1].cached_error_sum = creatures[2].cached_error_sum
    /\ creatures[1].cached_error_sum = min_error
    /\ best_creatures[2] = creatures[1]

\* The numbers of creatures of cs whose cached error is below, and at
\* most, the given error.
CountBelow(cs, error) ==
    Cardinality({ k \in 1..Len(cs) : Unwrap(cs[k].cached_error_sum) < error })
CountAtMost(cs, error) ==
    Cardinality({ k \in 1..Len(cs) : Unwrap(cs[k].cached_error_sum) <= error })

\* C15: on a non-empty collection of scored creatures error_results
\* returns the least cached error as min_error and, as median_error, the
\* element at index len / 2 of the ascending sort of the cached errors (the
\* upper median of an even number), and leaves the creatures and their
\* order as they are.
C15_ErrorResults ==
    [][ (pc = "Selecting" /\ pc' = "Reproducing") =>
          LET min == Unwrap(min_error')
              median == Unwrap(median_error')
              half == Len(creatures) \div 2
          IN  /\ \E k \in 1..Len(creatures) : creatures[k].cached_error_sum = Some(min)
              /\ \A k \in 1..Len(creatures) : min <= Unwrap(creatures[k].cached_error_sum)
              /\ \E k \in 1..Len(creatures) : creatures[k].cached_error_sum = Some(median)
              /\ CountBelow(creatures, median) <= half
              /\ CountAtMost(creatures, median) > half
              /\ creatures' = creatures ]_vars

\* C15 witness: a population of two creatures with different errors has
\* been ranked, and the median is the larger error.
C15_Witness ==
    /\ pc = "Reproducing"
    /\ Len(creatures) = 2
    /\ Unwrap(min_error) < Unwrap(median_error)
    /\ \E k \in 1..2 : creatures[k].cached_error_sum = median_error

(***************************************************************************)
(* Claims about the rounds of optimize_creature.                           *)
(***************************************************************************)
\* C17: optimize_creature called with iterations = n performs at most n
\* rounds, so that its error history holds at most n entries.
C17_AtMostIterationsRounds ==
    pc \in {"Refining", "Done"} =>
        Len(opt.errors) <= opt.iterations

\* C18: the mutation speed starts as Fast; it changes only at the end of a
\* round whose index is greater than 5 and whose minimum error divided by
\* the history entry three rounds earlier exceeds 0.9999; once Fine it
\* stays Fine, and the rounds with index 0 to 6 use Fast.
C18_SpeedSwitchesOnce ==
    [][ /\ (pc = "ChoosingBest" /\ pc' = "Refining") => opt'.speed = "Fast"
        /\ (pc = "Refining" /\ pc' = "Refining") =>
              /\ opt.i <= 6 => opt.speed = "Fast"
              /\ opt.speed = "Fine" => opt'.speed = "Fine"
              /\ opt'.speed # opt.speed =>
                    /\ opt.i > 5
                    /\ 10000 * opt'.errors[Len(opt'.errors)]
                         > 9999 * opt'.errors[Len(opt'.errors) - 3]
        /\ (pc = "Refining" /\ pc' = "Done") => opt' = opt ]_vars

\* C18 witness: the refinement has switched to Fine and a round run with
\* Fine has lowered the error.
C18_Witness ==
    /\ pc = "Refining"
    /\ opt.speed = "Fine"
    /\ opt.i = Len(opt.errors) /\ opt.i >= 8
    /\ opt.errors[opt.i] < opt.errors[opt.i - 1]
    /\ opt.errors[opt.i - 1] = opt.errors[1]

(***************************************************************************)
(* Claims about the parallel evaluation.                                   *)
(***************************************************************************)
\* C19: when the ranking of a collection begins every creature of the
\* collection has its cached error set: the parallel evaluation has ended
\* for all creatures first, each cache is written once, by one worker, and
\* the caches do not depend on the order in which the workers run.
C19_EvaluationCompletesFirst ==
    [][ /\ (pc = "Evaluating" /\ pc' = "Evaluating") =>
              \E k \in 1..Len(creatures) :
                 /\ creatures[k].cached_error_sum = None
                 /\ creatures' =
                      [creatures EXCEPT ![k].cached_error_sum =
                         Some(CalcErrorSum(creatures[k], standardized_data, target))]
        /\ pc' = "Selecting" =>
              /\ creatures' = creatures
              /\ \A k \in 1..Len(creatures') :
                    creatures'[k].cached_error_sum
                      = Some(CalcErrorSum(creatures'[k], standardized_data, target)) ]_vars

\* C19 witness: the evaluation of three creatures has ended with three
\* different errors and the ranking begins.
C19_Witness ==
    /\ pc = "Selecting"
    /\ Len(creatures) = 3
    /\ best_creatures = <<>>
    /\ creatures[1].cached_error_sum # creatures[2].cached_error_sum
    /\ creatures[2].cached_error_sum # creatures[3].cached_error_sum
    /\ creatures[1].cached_error_sum # creatures[3].cached_error_sum

(***************************************************************************)
(* Claims about the previous-layer term.                                   *)
(***************************************************************************)
\* C20: in every creature reachable by Creature::new and mutate the first
\* layer has no previous-layer term and every later layer has one: no
\* call assigns or removes a term after the construction.
C20_PreviousTermFollowsPosition ==
    \A k \in 1..Len(cr.equation) :
       IsSome(cr.equation[k].previous_layer_coefficients) <=> k > 1

\* C20 witness: a mutant of two layers whose previous-layer term, in the
\* second layer, has been modified by the mutation.
C20_Witness ==
    /\ res.op = "mutate" /\ ~res.panicked
    /\ cr.generation = 2
    /\ Len(cr.equation) = 2
    /\ cr.equation[1].previous_layer_coefficients = None
    /\ IsSome(cr.equation[2].previous_layer_coefficients)
    /\ Unwrap(cr.equation[2].previous_layer_coefficients).x = 4

(***************************************************************************)
(* Claims about the exponent at the top of u8.                             *)
(***************************************************************************)
\* C21: every Coefficients term reachable by Creature::new and mutate has
\* an exponent x of at least 1: x is decremented only when x > 1, and no
\* sequence of increments brings x to 0.
C21_ExponentAtLeastOne ==
    \A co \in AllCoefficients(cr) : co.x >= 1

(***************************************************************************)
(* Claims about the size of the population within a cycle.                 *)
(***************************************************************************)
\* C22: in every cycle the survivors of the cull are at most half of
\* num_creatures, rounded down, there is at most one mutant per survivor,
\* so survivors and mutants together never exceed num_creatures, and the
\* truncate step removes no creature.
C22_TruncateRemovesNothing ==
    [][ /\ (pc = "Reproducing" /\ pc' = "Resizing") =>
              LET survivors == Cardinality({ k \in 1..Len(creatures') :
                                               IsSome(creatures'[k].cached_error_sum) })
              IN  /\ 2 * survivors <= num_creatures
                  /\ Len(creatures') - survivors <= survivors
                  /\ Len(creatures') <= num_creatures
        /\ pc = "Resizing" =>
              /\ Len(creatures') = num_creatures
              /\ SubSeq(creatures', 1, Len(creatures)) = creatures ]_vars

\* C22 witness: of four creatures two survived, each got a mutant, and the
\* resize has kept all four without adding a new creature.
C22_Witness ==
    /\ pc = "ChoosingBest" /\ num_creatures = 4
    /\ Len(creatures) = 4
    /\ IsSome(creatures[1].cached_error_sum) /\ IsSome(creatures[2].cached_error_sum)
    /\ creatures[3].generation = 2 /\ creatures[4].generation = 2

(***************************************************************************)
(* Claims about the champions of successive cycles.                        *)
(***************************************************************************)
\* The champion of the last ranked cycle and its error.
LastChampion == best_creatures[Len(best_creatures)]
LastChampionError == Unwrap(LastChampion.cached_error_sum)

\* The cull and the refill as they treat the champion of the cycle: with
\* min_error < median_error the champion, cache included, is still in the
\* population after the cull and after the refill; with min_error equal
\* to median_error the cull leaves no creature and the refill brings in
\* only freshly constructed creatures.
ChampionCarriedOrCleared ==
    /\ (pc = "Reproducing" /\ pc' = "Resizing") =>
          IF Unwrap(min_error) < Unwrap(median_error)
          THEN \E k \in 1..Len(creatures') : creatures'[k] = LastChampion
          ELSE creatures' = <<>>
    /\ pc = "Resizing" =>
          IF Unwrap(min_error) < Unwrap(median_error)
          THEN \E k \in 1..Len(creatures') : creatures'[k] = LastChampion
          ELSE /\ Len(creatures') = num_creatures
               /\ \A k \in 1..Len(creatures') :
                     /\ creatures'[k].cached_error_sum = None
                     /\ creatures'[k].generation = 1

\* The ranking of a later cycle: its champion is no worse than the one
\* before unless the cycle before had min_error equal to median_error, and
\* the least error over best_creatures never grows.
ChampionsCompared ==
    (pc = "Selecting" /\ pc' = "Reproducing") =>
        /\ (Len(best_creatures) >= 1 /\ Unwrap(min_error) < Unwrap(median_error)) =>
               Unwrap(min_error') <= LastChampionError
        /\ (Len(best_creatures) >= 1 /\ Unwrap(min_error') > LastChampionError) =>
               min_error = median_error
        /\ MinCachedError(best_creatures', 1, ArbitrarilyLarge)
              <= MinCachedError(best_creatures, 1, ArbitrarilyLarge)

\* C23: if min_error < median_error in a cycle, the champion of the cycle
\* stays in the population with its cached error unchanged and the next
\* champion's error is at most its error; a later champion is worse than
\* the one before only after a cycle with min_error equal to median_error,
\* where the cull removes every creature and the next population is all
\* fresh; min_error equals median_error exactly when more than half of the
\* population shares the least error (always so with one creature); the
\* least error over best_creatures never grows.
C23_ChampionKeptUnlessMedianTie ==
    [][ /\ ChampionCarriedOrCleared
        /\ ChampionsCompared
        /\ pc' = "Reproducing" =>
              (min_error' = median_error'
                 <=> 2 * CountAtMost(creatures', Unwrap(min_error')) > Len(creatures'))
      ]_vars

\* C23 witness: the first cycle ended with min_error equal to median_error
\* and the champion of the second cycle is worse than the first champion.
C23_Witness ==
    /\ pc = "Reproducing" /\ cycle = 2
    /\ Len(best_creatures) = 2
    /\ Unwrap(best_creatures[2].cached_error_sum)
          > Unwrap(best_creatures[1].cached_error_sum)

\* C23 as stated: the same, with the example of the claim, that at least
\* half of the population tied at the least error (two creatures or more
\* sharing it) makes min_error equal to median_error.
C23_HalfTiedAtMinimumIsMedianTie ==
    [][ /\ ChampionCarriedOrCleared
        /\ ChampionsCompared
        /\ pc' = "Reproducing" =>
              /\ num_creatures = 1 => min_error' = median_error'
              /\ ( /\ CountAtMost(creatures', Unwrap(min_error')) >= 2
                    /\ 2 * CountAtMost(creatures', Unwrap(min_error')) >= Len(creatures') )
                    => min_error' = median_error'
      ]_vars
====
